---- MODULE Spec2Model ----
(***************************************************************************)
(* State-machine model of starlite's DTO factory (starlite/dto/factory.py) *)
(* and of the serialization plugins it drives (starlite/plugins/*.py).     *)
(*                                                                         *)
(* Python objects that are shared by reference (Config instances, plugin   *)
(* instances, the _reverse_field_mappings dicts, generated pydantic        *)
(* classes, DTO classes) live in heaps indexed by small integers, so that  *)
(* aliasing and in-place mutation are visible.  Python dicts whose order   *)
(* is observable (field definitions, field_mapping, reverse mappings) are  *)
(* sequences of entries; value dicts are functions from key to value.      *)
(***************************************************************************)
EXTENDS Integers, Sequences, FiniteSets, TLC

VARIABLES configs, plugins, tts, rfms, classes, dto, made, last, callers

vars == <<configs, plugins, tts, rfms, classes, dto, made, last, callers>>

----------------------------------------------------------------------------
(* Bounds *)

(* how many DTO classes a run creates: with every Config of the menu      *)
(* (MaxClasses), with the Configs of PairConfigs (MaxPair), and in runs     *)
(* that only specialize (MaxChain)                                          *)
MaxClasses == 1
MaxPair == 2
MaxChain == 3
MaxArrayLen == 2

(* how many DTO classes a run creates when it only indexes factories, in   *)
(* every way a factory can be indexed                                      *)
MaxIndexed == 1

(* how many callers are inside one plugin instance's                      *)
(* to_data_container_class at the same time                               *)
NumCallers == 2

(* how many plugins are registered, and how long a list, tuple or          *)
(* argument list of a value is                                             *)
MaxPlugins == 2
MaxItems == 2

----------------------------------------------------------------------------
(* Model types.  A model type has an ordered list of fields; every field   *)
(* is required.  The same two shapes exist in each model family.           *)

Models == {"M1", "M2"}

Fld(n, t, d) == [name |-> n, type |-> t, dflt |-> d]

ModelFields(m) ==
    IF m = "M1" THEN << Fld("a", "int", "required"), Fld("b", "str", "required") >>
    ELSE << Fld("c", "int", "required") >>

(* "async" is a FromPydantic plugin like PydanticPlugin whose to_dict is a  *)
(* coroutine function, which SerializationPluginProtocol.to_dict allows.   *)
Families == {"dataclass", "pydantic", "sqlalchemy", "async"}

(* Base factories.  The three shipped ones declare `plugin`; the Factory   *)
(* docstring's way of subclassing declares `plugin_type`.                  *)
BaseFactories ==
    [DataclassFactory  |-> [family |-> "dataclass",  plugin_type |-> FALSE],
     PydanticFactory   |-> [family |-> "pydantic",   plugin_type |-> FALSE],
     SQLAlchemyFactory |-> [family |-> "sqlalchemy", plugin_type |-> FALSE],
     DataclassDTO      |-> [family |-> "dataclass",  plugin_type |-> TRUE],
     PydanticDTO       |-> [family |-> "pydantic",   plugin_type |-> TRUE],
     SQLAlchemyDTO     |-> [family |-> "sqlalchemy", plugin_type |-> TRUE],
     AsyncDTO          |-> [family |-> "async",      plugin_type |-> TRUE]]

BaseNames == DOMAIN BaseFactories

----------------------------------------------------------------------------
(* Ordered-dict helpers *)

RECURSIVE IndexOfName(_, _, _)
IndexOfName(s, n, i) ==
    IF i > Len(s) THEN 0
    ELSE IF s[i].name = n THEN i
    ELSE IndexOfName(s, n, i + 1)

HasName(s, n) == IndexOfName(s, n, 1) # 0

Names(s) == {s[i].name : i \in 1..Len(s)}

(* d[e.name] = e : replace in place when the key exists, else append *)
DictSet(s, e) ==
    LET i == IndexOfName(s, e.name, 1)
    IN IF i = 0 THEN Append(s, e) ELSE [s EXCEPT ![i] = e]

Entry(s, n) == s[IndexOfName(s, n, 1)]

----------------------------------------------------------------------------
(* dto.Config: exclude, field_mapping, fields.  A field_mapping entry is   *)
(* [name |-> model field, to |-> transfer name, type |-> T], with          *)
(* type = "" for a plain string entry.                                     *)

Map(k, t, ty) == [name |-> k, to |-> t, type |-> ty]

Config(e, m, f) == [exclude |-> e, field_mapping |-> m, fields |-> f]

EmptyConfig == Config({}, << >>, << >>)

ConfigMenu ==
    << EmptyConfig,
       Config({"a"}, << >>, << >>),
       Config({}, << Map("a", "x", "") >>, << >>),
       Config({}, << Map("a", "x", "float") >>, << >>),
       Config({}, << >>, << Fld("y", "str", "required") >>),
       Config({}, << >>, << Fld("a", "str", "required") >>),
       Config({}, << Map("a", "x", ""), Map("b", "x", "") >>, << >>),
       Config({}, << Map("z", "w", "") >>, << >>),
       Config({"a"}, << Map("a", "x", "") >>, << >>),
       Config({}, << Map("a", "b", ""), Map("b", "a", "") >>, << >>) >>

ConfigIds == 1..Len(ConfigMenu)

(* cfg id 0 stands for a Config() made on the spot, which nothing aliases *)
ConfigOf(c) == IF c = 0 THEN EmptyConfig ELSE configs[c]

----------------------------------------------------------------------------
(* starlite/dto/utils.py *)

(* remap_field: a tuple entry replaces name and type, a string entry the   *)
(* name only.  field_type is whatever the caller passes (a type for the    *)
(* pydantic plugin, a (type, default) pair for the SQLAlchemy plugin).     *)
remap_field(field_mapping, field_name, field_type) ==
    LET mapping == Entry(field_mapping, field_name)
    IN IF mapping.type # "" THEN << mapping.to, mapping.type >>
       ELSE << mapping.to, field_type >>

----------------------------------------------------------------------------
(* pydantic.create_model over `fields`: one field per (type, default)     *)
(* entry, in dict order.  An entry whose value is a bare class is left as  *)
(* a plain class attribute and declares no field.                          *)
CreateModel(fields) == SelectSeq(fields, LAMBDA e : e.dflt # "bare")

(* PydanticPlugin.to_data_container_class, the loop over __fields__ *)
RECURSIVE PydanticFieldLoop(_, _, _, _, _)
PydanticFieldLoop(mf, i, exclude, field_mappings, fields) ==
    IF i > Len(mf) THEN fields
    ELSE LET f == mf[i]
         IN IF f.name \in exclude
            THEN PydanticFieldLoop(mf, i + 1, exclude, field_mappings, fields)
            ELSE LET r == IF HasName(field_mappings, f.name)
                          THEN remap_field(field_mappings, f.name, f.type)
                          ELSE << f.name, f.type >>
                 IN PydanticFieldLoop(mf, i + 1, exclude, field_mappings,
                                      DictSet(fields, Fld(r[1], r[2], f.dflt)))

(* SQLAlchemyPlugin.to_data_container_class, the loop over mapper.columns: *)
(* field_type is the (type, default) pair, so a tuple entry of the mapping *)
(* replaces the whole pair by the bare type.                               *)
RECURSIVE SQLAlchemyFieldLoop(_, _, _, _, _)
SQLAlchemyFieldLoop(mf, i, exclude, field_mappings, fields) ==
    IF i > Len(mf) THEN fields
    ELSE LET f == mf[i]
             pair == [type |-> f.type, dflt |-> f.dflt]
         IN IF f.name \in exclude
            THEN SQLAlchemyFieldLoop(mf, i + 1, exclude, field_mappings, fields)
            ELSE LET e == IF ~HasName(field_mappings, f.name)
                          THEN Fld(f.name, f.type, f.dflt)
                          ELSE LET r == remap_field(field_mappings, f.name, pair)
                               IN IF Entry(field_mappings, f.name).type # ""
                                  THEN Fld(r[1], r[2], "bare")
                                  ELSE Fld(r[1], r[2].type, r[2].dflt)
                 IN SQLAlchemyFieldLoop(mf, i + 1, exclude, field_mappings,
                                        DictSet(fields, e))

(* `fields = fields or {}`: a non-empty Config.fields dict is used (and    *)
(* written) in place, an empty one is replaced by a new dict.              *)
WriteBackFields(cfgs, c, fields) ==
    IF c # 0 /\ cfgs[c].fields # << >>
    THEN [cfgs EXCEPT ![c].fields = fields]
    ELSE cfgs

(* A plugin instance.  cache is SQLAlchemyPlugin._model_namespace_map, a   *)
(* dict from model name to generated class; the other plugins leave it     *)
(* empty.                                                                  *)
NewPlugin(fam) == [family |-> fam, cache |-> << >>]

(* a map that kept every store as an entry of its own, where a dict       *)
(* replaces the entry of an equal key                                      *)
CacheAppend(cache, m, tt) == Append(cache, [name |-> m, tt |-> tt])

(* self._model_namespace_map[model_name] = create_model(...) *)
CacheInsert(cache, m, tt) == DictSet(cache, [name |-> m, tt |-> tt])

(* to_data_container_class of plugin instance p for model m under Config   *)
(* c: the generated class (an index into the heap of generated classes)    *)
(* and the heaps after the call.                                           *)
to_data_container_class(cfgs, plgs, heap, p, m, c) ==
    LET cfg == IF c = 0 THEN EmptyConfig ELSE cfgs[c]
        fam == plgs[p].family
    IN CASE fam = "dataclass" ->
              [tt |-> Len(heap) + 1, configs |-> cfgs, plugins |-> plgs,
               tts |-> Append(heap, ModelFields(m))]
         [] fam \in {"pydantic", "async"} ->
              LET fields == PydanticFieldLoop(ModelFields(m), 1, cfg.exclude,
                                              cfg.field_mapping, cfg.fields)
              IN [tt |-> Len(heap) + 1,
                  configs |-> WriteBackFields(cfgs, c, fields),
                  plugins |-> plgs,
                  tts |-> Append(heap, CreateModel(fields))]
         [] fam = "sqlalchemy" ->
              IF HasName(plgs[p].cache, m)
              THEN [tt |-> Entry(plgs[p].cache, m).tt, configs |-> cfgs,
                    plugins |-> plgs, tts |-> heap]
              ELSE LET fields == SQLAlchemyFieldLoop(ModelFields(m), 1, cfg.exclude,
                                                     cfg.field_mapping, cfg.fields)
                   IN [tt |-> Len(heap) + 1,
                       configs |-> WriteBackFields(cfgs, c, fields),
                       plugins |-> [plgs EXCEPT ![p].cache =
                                       CacheInsert(@, m, Len(heap) + 1)],
                       tts |-> Append(heap, CreateModel(fields))]

----------------------------------------------------------------------------
(* Factory.__class_getitem__ *)

(* {target: key for key, value in field_mapping.items()} merged into the   *)
(* reverse mapping with dict.update                                        *)
RECURSIVE UpdateReverse(_, _, _)
UpdateReverse(rfm, field_mapping, i) ==
    IF i > Len(field_mapping) THEN rfm
    ELSE UpdateReverse(DictSet(rfm, [name |-> field_mapping[i].to,
                                     orig |-> field_mapping[i].name]),
                       field_mapping, i + 1)

(* a DTO instance: its class and its transfer_instance, which is one     *)
(* transfer instance (kind "one") or a list of them (kind "list")         *)
DTO(cls, kind, ti) == [cls |-> cls, kind |-> kind, ti |-> ti]
NoDTO == DTO(0, "none", << >>)
NoCall == [op |-> "none", input |-> << >>]

(* the last call: operation, class, input, how it ended, what it returned *)
Call(op, cls, input, status, out) ==
    [op |-> op, cls |-> cls, input |-> input, status |-> status, out |-> out]

(* A factory is a base factory (idx = 0) or the idx-th DTO class made by  *)
(* __class_getitem__, whose root base factory is `base`.                   *)
Factory(b, k) == [base |-> b, idx |-> k]
IsClass(f) == f.idx # 0
FamilyOf(f) == BaseFactories[f.base].family
HasPluginType(f) == BaseFactories[f.base].plugin_type

Factories ==
    {Factory(b, 0) : b \in BaseNames}
        \cup {Factory(classes[k].base, k) : k \in 1..Len(classes)}

(* dto is the DTO instance under observation: the one the last conversion *)
(* returned; made remembers that call.  Indexing a factory starts over.    *)
Init ==
    /\ made = NoCall
    /\ configs = [c \in ConfigIds |-> ConfigMenu[c]]
    /\ plugins = << >>
    /\ tts = << >>
    /\ rfms = << >>
    /\ classes = << >>
    /\ dto = NoDTO
    /\ last = Call("none", 0, << >>, "none", << >>)
    /\ callers = << >>

(* What a factory is indexed with: a TypeVar, a model type, or             *)
(* Annotated[model, ...] with one Config (an index into configs), with one *)
(* object that is no Config, or with more than one metadata object.        *)
Item(kind, m, c) == [kind |-> kind, model |-> m, config |-> c]
TypeVarItem == Item("typevar", "", 0)

ModelItems(cids) ==
    {Item("model", m, 0) : m \in Models}
        \cup {Item("annotated", m, c) : m \in Models, c \in cids}

(* a __class_getitem__ that made the plugin instance before it looked at   *)
(* what it was indexed with                                                *)
TypeVarBindsPlugin(f) ==
    /\ last' = Call("getitem", 0, << f, TypeVarItem >>, "returned", << f >>)
    /\ plugins' = Append(plugins, NewPlugin(FamilyOf(f)))
    /\ dto' = NoDTO
    /\ made' = NoCall
    /\ UNCHANGED <<configs, tts, rfms, classes, callers>>

(* cls[T] for a TypeVar T *)
ParametrizeTypeVar(f) ==
    /\ last' = Call("getitem", 0, << f, TypeVarItem >>, "returned", << f >>)
    /\ dto' = NoDTO
    /\ made' = NoCall
    /\ UNCHANGED <<configs, plugins, tts, rfms, classes, callers>>

(* cls[item] on a factory without plugin_type *)
SpecializeNoPluginType(f, item) ==
    /\ ~HasPluginType(f)
    /\ item.kind # "typevar"
    /\ last' = Call("getitem", 0, << f, item >>, "ImproperlyConfiguredException", << >>)
    /\ dto' = NoDTO
    /\ made' = NoCall
    /\ UNCHANGED <<configs, plugins, tts, rfms, classes, callers>>

(* cls[Annotated[model, metadata]] where metadata is no dto.Config *)
SpecializeBadMetadata(f, m) ==
    /\ HasPluginType(f)
    /\ last' = Call("getitem", 0, << f, Item("bad_metadata", m, 0) >>,
                    "ImproperlyConfiguredException", << >>)
    /\ dto' = NoDTO
    /\ made' = NoCall
    /\ UNCHANGED <<configs, plugins, tts, rfms, classes, callers>>

(* cls[Annotated[model, configs[c], more]]: `item, config = get_args(item)` *)
(* has three or more values to unpack into two names                        *)
SpecializeManyMetadata(f, m, c) ==
    /\ HasPluginType(f)
    /\ last' = Call("getitem", 0, << f, Item("many_metadata", m, c) >>, "ValueError", << >>)
    /\ dto' = NoDTO
    /\ made' = NoCall
    /\ UNCHANGED <<configs, plugins, tts, rfms, classes, callers>>

\* cls[model] when annotated is FALSE, else cls[Annotated[model, configs[c]]]
Specialize(f, m, annotated, c, bound) ==
    /\ HasPluginType(f)
    /\ Len(classes) < bound
    /\ LET fresh == ~IsClass(f)
           p == IF fresh THEN Len(plugins) + 1 ELSE classes[f.idx].plugin
           plgs == IF fresh THEN Append(plugins, NewPlugin(FamilyOf(f))) ELSE plugins
           r == IF fresh THEN Len(rfms) + 1 ELSE classes[f.idx].rfm
           rfms0 == IF fresh THEN Append(rfms, << >>) ELSE rfms
           config == IF annotated THEN c
                     ELSE IF fresh THEN 0 ELSE classes[f.idx].config
           rfms1 == IF annotated
                    THEN [rfms0 EXCEPT ![r] = UpdateReverse(rfms0[r], configs[c].field_mapping, 1)]
                    ELSE rfms0
           built == to_data_container_class(configs, plgs, tts, p, m, config)
           new == Factory(f.base, Len(classes) + 1)
       IN /\ configs' = built.configs
          /\ plugins' = built.plugins
          /\ tts' = built.tts
          /\ rfms' = rfms1
          /\ classes' = Append(classes,
                 [base |-> f.base, parent |-> f.idx,
                  plugin |-> p, config |-> config, rfm |-> r,
                  tt |-> built.tt, model |-> m])
          /\ last' = Call("getitem", new.idx,
                          << f, Item(IF annotated THEN "annotated" ELSE "model", m,
                                     IF annotated THEN c ELSE 0) >>,
                          "returned", << new >>)
    /\ dto' = NoDTO
    /\ made' = NoCall
    /\ UNCHANGED callers

----------------------------------------------------------------------------
(* Values.  A value is [k |-> kind, v |-> n]: the int n, the float n.0,    *)
(* the non-numeric string s_n, the strings "n" and "n.0", or None.         *)

Val(k, v) == [k |-> k, v |-> v]
None == Val("none", 0)
Invalid == Val("invalid", 0)

(* pydantic's validation of one value against a declared type *)
Coerce(type, x) ==
    CASE type = "int" ->
           IF x.k \in {"int", "float", "numstr"} THEN Val("int", x.v) ELSE Invalid
      [] type = "float" ->
           IF x.k \in {"int", "float", "numstr", "fltstr"} THEN Val("float", x.v)
           ELSE Invalid
      [] type = "str" ->
           CASE x.k \in {"str", "numstr", "fltstr"} -> x
             [] x.k = "int" -> Val("numstr", x.v)
             [] x.k = "float" -> Val("fltstr", x.v)
             [] OTHER -> Invalid
      [] OTHER -> Invalid

(* Python's == on two values: 1 == 1.0 *)
PyEq(x, y) ==
    IF x.k \in {"int", "float"} /\ y.k \in {"int", "float"} THEN x.v = y.v
    ELSE x = y

(* field-by-field equality of two model instances *)
SameInstance(x, y) ==
    /\ DOMAIN x = DOMAIN y
    /\ \A n \in DOMAIN x : PyEq(x[n], y[n])

Without(d, key) == [n \in DOMAIN d \ {key} |-> d[n]]
With(d, key, x) == [n \in DOMAIN d \cup {key} |-> IF n = key THEN x ELSE d[n]]

Ok(x) == [status |-> "ok", value |-> x]
Raise(exc) == [status |-> exc, value |-> << >>]

(* Parsing a decoded JSON object into the pydantic class with the given    *)
(* fields: every field is validated, a missing one takes its default or    *)
(* fails when required; keys that are no field are ignored.                *)
FieldValue(f, raw) ==
    IF f.name \in DOMAIN raw THEN Coerce(f.type, raw[f.name])
    ELSE IF f.dflt = "required" THEN Invalid
    ELSE None

ParseObj(fields, raw) ==
    IF \E i \in 1..Len(fields) : FieldValue(fields[i], raw) = Invalid
    THEN Raise("ValidationError")
    ELSE Ok([n \in Names(fields) |-> FieldValue(Entry(fields, n), raw)])

(* FromPydantic.parse_container_type_from_raw *)
parse_container_type_from_raw(container_type, buffer) ==
    IF buffer.kind # "object" THEN Raise("ValidationError")
    ELSE ParseObj(tts[container_type], buffer.val)

(* FromPydantic.parse_container_type_array_from_raw *)
parse_container_type_array_from_raw(container_type, buffer) ==
    IF buffer.kind # "array" THEN Raise("ValidationError")
    ELSE IF \E i \in 1..Len(buffer.val) :
               ParseObj(tts[container_type], buffer.val[i]).status # "ok"
    THEN Raise("ValidationError")
    ELSE Ok([i \in 1..Len(buffer.val) |->
                ParseObj(tts[container_type], buffer.val[i]).value])

(* to_dict of the class's plugin instance.  The instance passed is one of  *)
(* the class's model type, for which the SQLAlchemy plugin's map already   *)
(* holds the class built at specialization; from_orm reads every field of  *)
(* that class off the instance by name.                                    *)
to_dict(k, model_instance) ==
    LET fam == plugins[classes[k].plugin].family
    IN CASE fam \in {"dataclass", "pydantic"} -> Ok(model_instance)
         [] fam = "async" -> [status |-> "awaitable", value |-> model_instance]
         [] fam = "sqlalchemy" ->
              ParseObj(tts[Entry(plugins[classes[k].plugin].cache, classes[k].model).tt],
                       model_instance)

(* from_dict of the class's plugin instance *)
from_dict(k, values) ==
    LET fam == plugins[classes[k].plugin].family
        mf == ModelFields(classes[k].model)
    IN CASE fam = "dataclass" ->
              IF DOMAIN values = Names(mf) THEN Ok(values) ELSE Raise("TypeError")
         [] fam \in {"pydantic", "async"} -> ParseObj(mf, values)
         [] fam = "sqlalchemy" ->
              IF DOMAIN values \subseteq Names(mf)
              THEN Ok([n \in Names(mf) |-> IF n \in DOMAIN values THEN values[n] ELSE None])
              ELSE Raise("TypeError")

(* the loop of Factory.to_model: values[original_key] = values.pop(dto_key) *)
RECURSIVE ReverseLoop(_, _, _)
ReverseLoop(values, rfm, i) ==
    IF i > Len(rfm) THEN Ok(values)
    ELSE IF rfm[i].name \notin DOMAIN values THEN Raise("KeyError")
    ELSE ReverseLoop(With(Without(values, rfm[i].name), rfm[i].orig, values[rfm[i].name]),
                     rfm, i + 1)

(* Factory.to_model on a DTO instance d *)
to_model(d) ==
    IF d.kind # "one" THEN Raise("AttributeError")
    ELSE LET values == ReverseLoop(d.ti, rfms[classes[d.cls].rfm], 1)
         IN IF values.status # "ok" THEN values
            ELSE from_dict(d.cls, values.value)

(* Factory.from_buffer *)
from_buffer(k, buffer) ==
    LET ti == parse_container_type_from_raw(classes[k].tt, buffer)
    IN IF ti.status # "ok" THEN ti ELSE Ok(DTO(k, "one", ti.value))

(* Factory.array_from_buffer *)
array_from_buffer(k, buffer) ==
    LET ti == parse_container_type_array_from_raw(classes[k].tt, buffer)
    IN IF ti.status # "ok" THEN ti ELSE Ok(<< DTO(k, "list", ti.value) >>)

(* Factory.from_model: the dict (or awaitable) that to_dict returns goes    *)
(* straight into encode_json and from there into from_buffer.              *)
from_model(k, model_instance) ==
    LET d == to_dict(k, model_instance)
    IN CASE d.status = "awaitable" -> Raise("SerializationException")
         [] d.status = "ok" -> from_buffer(k, [kind |-> "object", val |-> d.value])
         [] OTHER -> d

(* cls.from_model_async: class Factory and its subclasses define no such   *)
(* attribute, so the attribute lookup fails before anything is called      *)
from_model_async(k, model_instance) == Raise("AttributeError")

----------------------------------------------------------------------------
(* Inputs *)

TypeValues(type) == {Val(type, n) : n \in 1..2}

Instances(m) ==
    LET mf == ModelFields(m)
    IN {x \in [Names(mf) -> UNION {TypeValues(mf[i].type) : i \in 1..Len(mf)}] :
           \A i \in 1..Len(mf) : x[mf[i].name].k = mf[i].type}

RawKeys == {"a", "b", "x"}
RawValues(key) == {Val("int", 1), Val("str", 2)}
RawObjects ==
    UNION {{o \in [ks -> {Val("int", 1), Val("str", 2)}] :
               \A key \in ks : o[key] \in RawValues(key)} : ks \in SUBSET RawKeys}

ArrayElements == {o \in RawObjects : DOMAIN o = {"a", "b"} /\ o["b"] = Val("str", 2)}
RawArrays == UNION {[1..n -> ArrayElements] : n \in 0..MaxArrayLen}

----------------------------------------------------------------------------
(* Conversion actions *)

FromModel(k, m) ==
    LET r == from_model(k, m)
    IN /\ dto' = IF r.status = "ok" THEN r.value ELSE NoDTO
       /\ made' = IF r.status = "ok" THEN [op |-> "from_model", input |-> << m >>] ELSE NoCall
       /\ last' = Call("from_model", k, << m >>, r.status, << >>)
       /\ UNCHANGED <<configs, plugins, tts, rfms, classes, callers>>

FromBuffer(k, raw) ==
    LET r == from_buffer(k, [kind |-> "object", val |-> raw])
    IN /\ dto' = IF r.status = "ok" THEN r.value ELSE NoDTO
       /\ made' = IF r.status = "ok" THEN [op |-> "from_buffer", input |-> << raw >>] ELSE NoCall
       /\ last' = Call("from_buffer", k, << raw >>, r.status, << >>)
       /\ UNCHANGED <<configs, plugins, tts, rfms, classes, callers>>

ArrayFromBuffer(k, raws) ==
    LET r == array_from_buffer(k, [kind |-> "array", val |-> raws])
    IN /\ dto' = IF r.status = "ok" THEN r.value[1] ELSE NoDTO
       /\ made' = IF r.status = "ok" THEN [op |-> "array_from_buffer", input |-> raws] ELSE NoCall
       /\ last' = Call("array_from_buffer", k, raws, r.status,
                       IF r.status = "ok" THEN r.value ELSE << >>)
       /\ UNCHANGED <<configs, plugins, tts, rfms, classes, callers>>

FromModelAsync(k, m) ==
    LET r == from_model_async(k, m)
    IN /\ dto' = IF r.status = "ok" THEN r.value ELSE NoDTO
       /\ made' = IF r.status = "ok" THEN [op |-> "from_model_async", input |-> << m >>]
                  ELSE NoCall
       /\ last' = Call("from_model_async", k, << m >>, r.status, << >>)
       /\ UNCHANGED <<configs, plugins, tts, rfms, classes, callers>>

ToModel ==
    /\ dto # NoDTO
    /\ LET r == to_model(dto)
       IN last' = Call("to_model", dto.cls, << >>, r.status,
                       IF r.status = "ok" THEN << r.value >> ELSE << >>)
    /\ UNCHANGED <<configs, plugins, tts, rfms, classes, dto, made, callers>>

(* one DTO class at a time, under every Config of the menu *)
Next ==
    \/ \E f \in Factories : ParametrizeTypeVar(f)
    \/ \E f \in Factories, item \in ModelItems({1}) : SpecializeNoPluginType(f, item)
    \/ \E f \in Factories, m \in Models : SpecializeBadMetadata(f, m)
    \/ \E f \in Factories, m \in Models : SpecializeManyMetadata(f, m, 1)
    \/ \E f \in Factories, m \in Models : Specialize(f, m, FALSE, 0, MaxClasses)
    \/ \E f \in Factories, m \in Models, c \in ConfigIds : Specialize(f, m, TRUE, c, MaxClasses)
    \/ \E k \in 1..Len(classes) : \E m \in Instances(classes[k].model) : FromModel(k, m)
    \/ \E k \in 1..Len(classes) : \E m \in Instances(classes[k].model) : FromModelAsync(k, m)
    \/ \E k \in 1..Len(classes) : \E raw \in RawObjects : FromBuffer(k, raw)
    \/ \E k \in 1..Len(classes) : \E raws \in RawArrays : ArrayFromBuffer(k, raws)
    \/ ToModel

Spec == Init /\ [][Next]_vars

(* DTO classes and their subclasses, with conversions *)
PairConfigs == {1, 3}

PairNext ==
    \/ \E f \in Factories, m \in Models : Specialize(f, m, FALSE, 0, MaxPair)
    \/ \E f \in Factories, m \in Models, c \in PairConfigs : Specialize(f, m, TRUE, c, MaxPair)
    \/ \E k \in 1..Len(classes) : \E m \in Instances(classes[k].model) : FromModel(k, m)
    \/ \E k \in 1..Len(classes) : \E raw \in RawObjects : FromBuffer(k, raw)
    \/ ToModel

PairSpec == Init /\ [][PairNext]_vars

(* specialization only *)
ChainConfigs == {1, 2, 3, 5}

ChainNext ==
    \/ \E f \in Factories, m \in Models : Specialize(f, m, FALSE, 0, MaxChain)
    \/ \E f \in Factories, m \in Models, c \in ChainConfigs : Specialize(f, m, TRUE, c, MaxChain)

ChainSpec == Init /\ [][ChainNext]_vars

(* every way of indexing a factory, base or specialized *)
IndexConfigs == {1, 3}

IndexNext ==
    \/ \E f \in Factories : ParametrizeTypeVar(f)
    \/ \E f \in Factories, item \in ModelItems(IndexConfigs) : SpecializeNoPluginType(f, item)
    \/ \E f \in Factories, m \in Models : SpecializeBadMetadata(f, m)
    \/ \E f \in Factories, m \in Models, c \in IndexConfigs : SpecializeManyMetadata(f, m, c)
    \/ \E f \in Factories, m \in Models : Specialize(f, m, FALSE, 0, MaxIndexed)
    \/ \E f \in Factories, m \in Models, c \in IndexConfigs : Specialize(f, m, TRUE, c, MaxIndexed)

IndexSpec == Init /\ [][IndexNext]_vars

----------------------------------------------------------------------------
(* Concurrent callers of to_data_container_class on one plugin instance    *)
(* whose map is empty.  Nothing in the method synchronizes, so a caller    *)
(* can be overtaken between any two of its statements.  A caller is at     *)
(* "enter" (fields = fields or {}), "check" (the test of the map), "loop"  *)
(* (one column per step), "create" (create_model), "insert" (the store     *)
(* into the map), "read" (the read-back that is returned) or "done".       *)
(* built is the class the caller created, wrote the rank of its store      *)
(* among all stores, result what it returned.                              *)

RaceFamilies == {"sqlalchemy", "tortoise"}
RaceConfigs == {3, 5}

Caller(m, c) ==
    [pc |-> "enter", model |-> m, config |-> c, shared |-> FALSE, fields |-> << >>,
     col |-> 0, built |-> 0, wrote |-> 0, result |-> 0]

RaceInit ==
    /\ made = NoCall
    /\ configs = [c \in ConfigIds |-> ConfigMenu[c]]
    /\ \E fam \in RaceFamilies : plugins = << NewPlugin(fam) >>
    /\ tts = << >>
    /\ rfms = << >>
    /\ classes = << >>
    /\ dto = NoDTO
    /\ last = Call("none", 0, << >>, "none", << >>)
    /\ callers \in [1..NumCallers -> {Caller(m, c) : m \in Models, c \in RaceConfigs}]

(* the dict a caller's name `fields` is bound to *)
FieldsOf(i) ==
    IF callers[i].shared THEN configs[callers[i].config].fields ELSE callers[i].fields

(* exclude = exclude or set(); field_mappings = ...; fields = fields or {} *)
Enter(i) ==
    /\ callers[i].pc = "enter"
    /\ callers' = [callers EXCEPT ![i].pc = "check",
                                  ![i].shared = configs[callers[i].config].fields # << >>]
    /\ UNCHANGED <<configs, plugins, tts, rfms, classes, dto, made, last>>

(* if model_name not in self._model_namespace_map *)
Check(i) ==
    /\ callers[i].pc = "check"
    /\ callers' = [callers EXCEPT
                      ![i].pc = IF HasName(plugins[1].cache, callers[i].model) THEN "read"
                                ELSE IF plugins[1].family = "sqlalchemy" THEN "loop"
                                ELSE "create",
                      ![i].col = 1]
    /\ UNCHANGED <<configs, plugins, tts, rfms, classes, dto, made, last>>

(* one iteration of the loop over mapper.columns *)
LoopStep(i) ==
    /\ callers[i].pc = "loop"
    /\ LET c == callers[i].config
           mf == ModelFields(callers[i].model)
           col == callers[i].col
           fields == SQLAlchemyFieldLoop(SubSeq(mf, col, col), 1, configs[c].exclude,
                                         configs[c].field_mapping, FieldsOf(i))
           pc == IF col = Len(mf) THEN "create" ELSE "loop"
       IN IF callers[i].shared
          THEN /\ configs' = [configs EXCEPT ![c].fields = fields]
               /\ callers' = [callers EXCEPT ![i].pc = pc, ![i].col = col + 1]
          ELSE /\ configs' = configs
               /\ callers' = [callers EXCEPT ![i].pc = pc, ![i].col = col + 1,
                                             ![i].fields = fields]
    /\ UNCHANGED <<plugins, tts, rfms, classes, dto, made, last>>

(* create_model(model_name, ..., **fields); the tortoise plugin's          *)
(* _create_pydantic_model(model_class) takes nothing of the Config         *)
Create(i) ==
    /\ callers[i].pc = "create"
    /\ tts' = Append(tts, IF plugins[1].family = "sqlalchemy" THEN CreateModel(FieldsOf(i))
                          ELSE ModelFields(callers[i].model))
    /\ callers' = [callers EXCEPT ![i].pc = "insert", ![i].built = Len(tts) + 1]
    /\ UNCHANGED <<configs, plugins, rfms, classes, dto, made, last>>

(* self._model_namespace_map[model_name] = <the class just created> *)
Insert(i) ==
    /\ callers[i].pc = "insert"
    /\ plugins' = [plugins EXCEPT ![1].cache =
                      CacheInsert(@, callers[i].model, callers[i].built)]
    /\ callers' = [callers EXCEPT
                      ![i].pc = "read",
                      ![i].wrote = 1 + Cardinality({j \in DOMAIN callers : callers[j].wrote > 0})]
    /\ UNCHANGED <<configs, tts, rfms, classes, dto, made, last>>

(* model = self._model_namespace_map[model_name]; return model *)
ReadBack(i) ==
    /\ callers[i].pc = "read"
    /\ callers' = [callers EXCEPT
                      ![i].pc = "done",
                      ![i].result = Entry(plugins[1].cache, callers[i].model).tt]
    /\ UNCHANGED <<configs, plugins, tts, rfms, classes, dto, made, last>>

RaceNext ==
    \/ \E i \in DOMAIN callers : Enter(i)
    \/ \E i \in DOMAIN callers : Check(i)
    \/ \E i \in DOMAIN callers : LoopStep(i)
    \/ \E i \in DOMAIN callers : Create(i)
    \/ \E i \in DOMAIN callers : Insert(i)
    \/ \E i \in DOMAIN callers : ReadBack(i)

RaceSpec == RaceInit /\ [][RaceNext]_vars

----------------------------------------------------------------------------
(* starlite/plugins/base.py: get_plugin_for_value and PluginMapping.  Here  *)
(* plugins is the list of registered plugins, in registration order.       *)

RegistryFamilies == {"dataclass", "pydantic", "sqlalchemy"}

Registries ==
    UNION {[1..n -> {NewPlugin(fam) : fam \in RegistryFamilies}] : n \in 0..MaxPlugins}

(* A value handed to get_plugin_for_value: a model class or instance of a  *)
(* family ("str" for one that no plugin supports), a list or tuple of      *)
(* values, or a generic alias such as List[X] or Optional[X] with its      *)
(* arguments.                                                              *)
Plain(of) == [shape |-> "plain", of |-> of, items |-> << >>]
Wrap(shape, items) == [shape |-> shape, of |-> "", items |-> items]

Shapes == {"list", "tuple", "generic"}

PlainValues == {Plain(of) : of \in RegistryFamilies \cup {"str"}}

WrappedOnce ==
    {Wrap(sh, s) : sh \in Shapes, s \in UNION {[1..n -> PlainValues] : n \in 0..MaxItems}}

WrappedTwice == {Wrap(sh, << w >>) : sh \in Shapes, w \in WrappedOnce}

LookupValues == PlainValues \cup WrappedOnce \cup WrappedTwice

(* is_plugin_supported_type of the three plugins: a class or an instance   *)
(* of the plugin's own family, and nothing else                            *)
is_plugin_supported_type(fam, value) == value.shape = "plain" /\ value.of = fam

(* bool(value): an empty list or tuple is false *)
Truthy(value) == ~(value.shape \in {"list", "tuple"} /\ value.items = << >>)

(* typing_extensions.get_args: the arguments of a generic alias, else () *)
get_args(value) == IF value.shape = "generic" THEN value.items ELSE << >>

(* for plugin in plugins: if plugin.is_plugin_supported_type(value): ...   *)
(* The plugin returned is named by its place in the list, 0 for None.      *)
RECURSIVE FirstSupporting(_, _, _)
FirstSupporting(plgs, value, i) ==
    IF i > Len(plgs) THEN 0
    ELSE IF is_plugin_supported_type(plgs[i].family, value) THEN i
    ELSE FirstSupporting(plgs, value, i + 1)

get_plugin_for_value(value, plgs) ==
    IF plgs = << >> THEN 0
    ELSE LET v1 == IF Truthy(value) /\ value.shape \in {"list", "tuple"}
                   THEN value.items[1] ELSE value
             v2 == IF get_args(v1) # << >> THEN get_args(v1)[1] ELSE v1
         IN FirstSupporting(plgs, v2, 1)

(* A call of one of the two functions that is about to be made: callers    *)
(* holds it, and last is still empty.                                      *)
Pending(op, input) == [op |-> op, input |-> input]
IsPending(op) == last.op = "none" /\ Len(callers) = 1 /\ callers[1].op = op

GetPluginForValue ==
    /\ IsPending("get_plugin_for_value")
    /\ LET value == callers[1].input[1]
       IN last' = Call("get_plugin_for_value", 0, << value >>, "returned",
                       << get_plugin_for_value(value, plugins) >>)
    /\ UNCHANGED <<configs, plugins, tts, rfms, classes, dto, made, callers>>

(* from_data_container_instance of the three plugins: model_class called   *)
(* with data_container_instance.dict() as its keyword arguments            *)
from_data_container_instance(fam, m, data_container_instance) ==
    LET mf == ModelFields(m)
        kwargs == data_container_instance
    IN CASE fam = "dataclass" ->
              IF DOMAIN kwargs = Names(mf) THEN Ok(kwargs) ELSE Raise("TypeError")
         [] fam = "pydantic" -> ParseObj(mf, kwargs)
         [] fam = "sqlalchemy" ->
              IF DOMAIN kwargs \subseteq Names(mf)
              THEN Ok([n \in Names(mf) |-> IF n \in DOMAIN kwargs THEN kwargs[n] ELSE None])
              ELSE Raise("TypeError")

(* what PluginMapping.get_model_instance_for_value takes and returns: one  *)
(* instance (shape "one") or a list or tuple of them                       *)
Single(x) == [shape |-> "one", items |-> << x >>]
Many(shape, items) == [shape |-> shape, items |-> items]

(* [self.plugin.from_data_container_instance(self.model_class, item)       *)
(*  for item in value]: left to right, and the first item that raises ends *)
(* the comprehension                                                       *)
RECURSIVE Comprehension(_, _, _, _)
Comprehension(fam, m, items, i) ==
    IF i > Len(items) THEN Ok(<< >>)
    ELSE LET head == from_data_container_instance(fam, m, items[i])
         IN IF head.status # "ok" THEN head
            ELSE LET rest == Comprehension(fam, m, items, i + 1)
                 IN IF rest.status # "ok" THEN rest
                    ELSE Ok(<< head.value >> \o rest.value)

(* a conversion that looked at the first item of a sequence only *)
InstanceForFirstValue(fam, m, value) ==
    IF value.shape \in {"list", "tuple"}
    THEN LET first == IF Len(value.items) > 1 THEN << value.items[1] >> ELSE value.items
             r == Comprehension(fam, m, first, 1)
         IN IF r.status # "ok" THEN r ELSE Ok(Many("list", r.value))
    ELSE LET r == from_data_container_instance(fam, m, value.items[1])
         IN IF r.status # "ok" THEN r ELSE Ok(Single(r.value))

(* PluginMapping(plugin, model_class).get_model_instance_for_value(value) *)
get_model_instance_for_value(fam, m, value) ==
    IF value.shape \in {"list", "tuple"}
    THEN LET r == Comprehension(fam, m, value.items, 1)
         IN IF r.status # "ok" THEN r ELSE Ok(Many("list", r.value))
    ELSE LET r == from_data_container_instance(fam, m, value.items[1])
         IN IF r.status # "ok" THEN r ELSE Ok(Single(r.value))

(* Instances of the container class of model m, and of one built without   *)
(* the model's first field                                                 *)
ContainerInstances(m) ==
    Instances(m) \cup {Without(x, ModelFields(m)[1].name) : x \in Instances(m)}

ContainerValues(m) ==
    {Single(x) : x \in ContainerInstances(m)}
        \cup {Many(sh, s) : sh \in {"list", "tuple"},
                            s \in UNION {[1..n -> ContainerInstances(m)] : n \in 0..MaxItems}}

GetModelInstanceForValue ==
    /\ IsPending("get_model_instance_for_value")
    /\ LET p == callers[1].input[1]
           m == callers[1].input[2]
           value == callers[1].input[3]
           r == get_model_instance_for_value(plugins[p].family, m, value)
       IN last' = Call("get_model_instance_for_value", 0, << p, m, value >>, r.status,
                       IF r.status = "ok" THEN << r.value >> ELSE << >>)
    /\ UNCHANGED <<configs, plugins, tts, rfms, classes, dto, made, callers>>

(* the registered plugins and the call to make are drawn here *)
AdapterInit ==
    /\ made = NoCall
    /\ configs = [c \in ConfigIds |-> ConfigMenu[c]]
    /\ plugins \in Registries
    /\ tts = << >>
    /\ rfms = << >>
    /\ classes = << >>
    /\ dto = NoDTO
    /\ last = Call("none", 0, << >>, "none", << >>)
    /\ \/ \E value \in LookupValues :
             callers = << Pending("get_plugin_for_value", << value >>) >>
       \/ \E p \in 1..Len(plugins), m \in Models : \E value \in ContainerValues(m) :
             callers = << Pending("get_model_instance_for_value", << p, m, value >>) >>

AdapterNext ==
    \/ GetPluginForValue
    \/ GetModelInstanceForValue

AdapterSpec == AdapterInit /\ [][AdapterNext]_vars

----------------------------------------------------------------------------
(* What the claims speak about *)

(* the Configuration a class was specialized with, as its creator wrote it *)
GivenConfig(k) == IF classes[k].config = 0 THEN EmptyConfig ELSE ConfigMenu[classes[k].config]

ModelOf(k) == ModelFields(classes[k].model)
TransferOf(k) == tts[classes[k].tt]
FamilyOfClass(k) == BaseFactories[classes[k].base].family
Classes == 1..Len(classes)

(* transfer-side name and type of model field f under a Configuration *)
TransferName(cfg, f) ==
    IF HasName(cfg.field_mapping, f.name) THEN Entry(cfg.field_mapping, f.name).to ELSE f.name
TransferType(cfg, f) ==
    IF HasName(cfg.field_mapping, f.name) /\ Entry(cfg.field_mapping, f.name).type # ""
    THEN Entry(cfg.field_mapping, f.name).type ELSE f.type

Kept(cfg, mf) == {i \in 1..Len(mf) : mf[i].name \notin cfg.exclude}

(* model fields minus exclude, renamed and retyped, plus the added fields *)
ShapedFields(cfg, mf) ==
    {<< TransferName(cfg, mf[i]), TransferType(cfg, mf[i]) >> : i \in Kept(cfg, mf)}
        \cup {<< cfg.fields[i].name, cfg.fields[i].type >> : i \in 1..Len(cfg.fields)}

FieldSet(fields) == {<< fields[i].name, fields[i].type >> : i \in 1..Len(fields)}

RECURSIVE EmptyChain(_)
EmptyChain(k) ==
    k = 0 \/ (GivenConfig(k) = EmptyConfig /\ EmptyChain(classes[k].parent))

(* C1: with an empty Configuration (the class and every class it was      *)
(* specialized from), from_model(m) succeeds and from_model(m).to_model()  *)
(* is field-by-field equal to m.                                           *)
C1_RoundTripIdentity ==
    /\ (last.op = "from_model" /\ FamilyOfClass(last.cls) # "async" /\ EmptyChain(last.cls))
          => last.status = "ok"
    /\ (last.op = "to_model" /\ made.op = "from_model" /\ EmptyChain(dto.cls))
          => (last.status = "ok" /\ SameInstance(last.out[1], made.input[1]))

(* C2: a field named in exclude is no field of the TransferType, in every  *)
(* model family.                                                           *)
C2_Exclusion ==
    \A k \in Classes : \A x \in GivenConfig(k).exclude :
        x \in Names(ModelOf(k)) => x \notin Names(TransferOf(k))

(* C3: a field a renamed to b is in the TransferType as b and not as a,    *)
(* and a DTO made from raw data holding b: v gives, by to_model, a model   *)
(* instance with a = v.                                                    *)
Renames(k) ==
    {i \in 1..Len(GivenConfig(k).field_mapping) :
        /\ GivenConfig(k).field_mapping[i].type = ""
        /\ GivenConfig(k).field_mapping[i].name \in Names(ModelOf(k))
        /\ GivenConfig(k).field_mapping[i].name \notin GivenConfig(k).exclude}

C3_RenameCorrectness ==
    /\ \A k \in Classes : \A i \in Renames(k) :
          LET e == GivenConfig(k).field_mapping[i]
          IN HasName(TransferOf(k), e.to) /\ ~HasName(TransferOf(k), e.name)
    /\ (last.op = "to_model" /\ made.op = "from_buffer")
          => \A i \in Renames(dto.cls) :
                LET e == GivenConfig(dto.cls).field_mapping[i]
                    raw == made.input[1]
                    v == Coerce(Entry(ModelOf(dto.cls), e.name).type, raw[e.to])
                IN (e.to \in DOMAIN raw /\ v # Invalid)
                      => (last.status = "ok" /\ PyEq(last.out[1][e.name], v))

(* C4: from_model(m) succeeds and its transfer instance holds m.f, for     *)
(* every field f that is not excluded, under the name field_mapping gives  *)
(* f, and nothing of the excluded fields.                                  *)
C4_ForwardRemapping ==
    (last.op = "from_model" /\ FamilyOfClass(last.cls) # "async")
       => LET cfg == GivenConfig(last.cls)
              mf == ModelOf(last.cls)
              m == last.input[1]
          IN /\ last.status = "ok"
             /\ \A i \in Kept(cfg, mf) :
                   /\ TransferName(cfg, mf[i]) \in DOMAIN dto.ti
                   /\ PyEq(dto.ti[TransferName(cfg, mf[i])], m[mf[i].name])
             /\ DOMAIN dto.ti = {fld[1] : fld \in ShapedFields(cfg, mf)}

(* C5: a field a mapped to (b, T) is in the TransferType as b with type T  *)
(* and not as a; mapped to the string b it is there as b with its own      *)
(* type.                                                                   *)
C5_RetypeCorrectness ==
    \A k \in Classes : \A i \in 1..Len(GivenConfig(k).field_mapping) :
        LET e == GivenConfig(k).field_mapping[i]
            mf == ModelOf(k)
        IN (e.name \in Names(mf) /\ e.name \notin GivenConfig(k).exclude)
              => /\ HasName(TransferOf(k), e.to)
                 /\ Entry(TransferOf(k), e.to).type = TransferType(GivenConfig(k), Entry(mf, e.name))
                 /\ ~HasName(TransferOf(k), e.name)

(* C6: array_from_buffer on an array of n valid objects returns n DTO      *)
(* instances, the i-th wrapping the one transfer instance decoded from the *)
(* i-th element.                                                           *)
C6_ArrayFromBuffer ==
    (/\ last.op = "array_from_buffer"
     /\ \A i \in 1..Len(last.input) : ParseObj(TransferOf(last.cls), last.input[i]).status = "ok")
       => /\ last.status = "ok"
          /\ Len(last.out) = Len(last.input)
          /\ \A i \in 1..Len(last.out) :
                /\ last.out[i].kind = "one"
                /\ last.out[i].ti = ParseObj(TransferOf(last.cls), last.input[i]).value

(* C7: the TransferType of a SQLAlchemy DTO class specialized from an      *)
(* already specialized class (through the same adapter, after the earlier  *)
(* specializations) has exactly the model's fields minus its               *)
(* Configuration's exclude, renamed and retyped by its field_mapping, plus *)
(* its fields.                                                             *)
C7_ReflectsConfiguration ==
    \A k \in Classes :
        (classes[k].parent # 0 /\ FamilyOfClass(k) = "sqlalchemy")
           => FieldSet(TransferOf(k)) = ShapedFields(GivenConfig(k), ModelOf(k))

(* C8: two DTO classes specialized with the same model type and the same   *)
(* Configuration have the same TransferType, or TransferTypes with the     *)
(* same fields, types and order; and a TransferType held in a plugin's map *)
(* stays there, unchanged, whatever is called later.                       *)
SamePair(j, k) ==
    /\ FamilyOfClass(j) = FamilyOfClass(k)
    /\ classes[j].model = classes[k].model
    /\ classes[j].config = classes[k].config

CacheKept ==
    \A p \in 1..Len(plugins) : \A i \in 1..Len(plugins[p].cache) :
        /\ Len(plugins'[p].cache) >= i
        /\ plugins'[p].cache[i] = plugins[p].cache[i]
        /\ tts'[plugins[p].cache[i].tt] = tts[plugins[p].cache[i].tt]

C8_IdempotentCaching ==
    /\ [](\A j, k \in Classes :
            SamePair(j, k)
               => (classes[j].tt = classes[k].tt \/ TransferOf(j) = TransferOf(k)))
    /\ [][CacheKept]_vars

(* C9: when the callers that are concurrently inside the first build on    *)
(* one plugin instance all ask for the same model type and Configuration,  *)
(* then under every interleaving of their steps those that have returned   *)
(* hold classes with the same fields, types and order; and once a class    *)
(* is stored for a model the map has exactly one entry for that model,     *)
(* the class stored last.                                                  *)
SameCall(i, j) ==
    callers[i].model = callers[j].model /\ callers[i].config = callers[j].config

Stored(m) == {i \in DOMAIN callers : callers[i].model = m /\ callers[i].wrote > 0}

LastStored(m) ==
    CHOOSE i \in Stored(m) : \A j \in Stored(m) : callers[j].wrote <= callers[i].wrote

C9_ConcurrentFirstUse ==
    /\ (\A i, j \in DOMAIN callers : SameCall(i, j))
          => \A i, j \in DOMAIN callers :
                (callers[i].pc = "done" /\ callers[j].pc = "done")
                   => tts[callers[i].result] = tts[callers[j].result]
    /\ \A m \in Models :
          Stored(m) # {}
             => /\ Cardinality({n \in 1..Len(plugins[1].cache) :
                                   plugins[1].cache[n].name = m}) = 1
                /\ Entry(plugins[1].cache, m).tt = callers[LastStored(m)].built

(* two callers with the same model type and Configuration both missed the  *)
(* map, both built and stored a class, and both have returned              *)
C9_Witness ==
    \E i, j \in DOMAIN callers :
        /\ i # j /\ SameCall(i, j)
        /\ callers[i].pc = "done" /\ callers[j].pc = "done"
        /\ callers[i].wrote > 0 /\ callers[j].wrote > 0
        /\ callers[i].built # callers[j].built
        /\ plugins[1].family = "sqlalchemy"

(* C10: from_model through an adapter whose to_dict is asynchronous fails  *)
(* with ImproperlyConfiguredException.                                     *)
C10_AsyncExtractionFailsFast ==
    (last.op = "from_model" /\ FamilyOfClass(last.cls) = "async")
       => (last.status = "ImproperlyConfiguredException" /\ dto = NoDTO)

(* C11: from_model_async(m) completes for synchronous and asynchronous     *)
(* adapters, and for a synchronous adapter its DTO holds the same transfer *)
(* instance, value for value, as that of from_model(m).                    *)
C11_SyncAsyncEquivalence ==
    (last.op = "from_model_async" /\ EmptyChain(last.cls))
       => /\ last.status = "ok"
          /\ FamilyOfClass(last.cls) # "async"
                => /\ from_model(last.cls, last.input[1]).status = "ok"
                   /\ dto = from_model(last.cls, last.input[1]).value

(* C12: every field declared in Configuration.fields is a field of the     *)
(* TransferType with its declared type, next to the model's own fields     *)
(* that are not excluded, in every model family.                           *)
Collides(cfg, mf) ==
    \E i \in 1..Len(cfg.fields) : \E j \in Kept(cfg, mf) :
        cfg.fields[i].name = TransferName(cfg, mf[j])

C12_AdditiveFields ==
    \A k \in Classes :
        LET cfg == GivenConfig(k)
        IN ~Collides(cfg, ModelOf(k))
              => /\ \A i \in 1..Len(cfg.fields) :
                       /\ HasName(TransferOf(k), cfg.fields[i].name)
                       /\ Entry(TransferOf(k), cfg.fields[i].name).type = cfg.fields[i].type
                 /\ cfg.fields # << >>
                       => \A j \in Kept(cfg, ModelOf(k)) :
                             HasName(TransferOf(k), TransferName(cfg, ModelOf(k)[j]))

(* what the last call was indexed with, when it was Annotated[model, Config] *)
IndexedWith == last.input[2]
IndexedConfig == ConfigMenu[IndexedWith.config]
IndexedAnnotated ==
    /\ last.op = "getitem"
    /\ IndexedWith.kind = "annotated"
    /\ HasPluginType(last.input[1])

(* C13: specializing a pydantic or SQLAlchemy factory with a Configuration *)
(* whose fields declares the transfer-side name of a model field that is   *)
(* not excluded fails with ImproperlyConfiguredException and makes no DTO  *)
(* class.                                                                  *)
C13_AdditiveFieldCollision ==
    (/\ IndexedAnnotated
     /\ FamilyOf(last.input[1]) \in {"pydantic", "sqlalchemy"}
     /\ Collides(IndexedConfig, ModelFields(IndexedWith.model)))
       => (last.status = "ImproperlyConfiguredException" /\ last.out = << >>)

(* C14: specializing a pydantic factory with a field_mapping that gives    *)
(* two kept model fields the same transfer name fails with                 *)
(* ImproperlyConfiguredException; no field is silently dropped.            *)
NotInjective(cfg, mf) ==
    \E i, j \in Kept(cfg, mf) :
        i # j /\ TransferName(cfg, mf[i]) = TransferName(cfg, mf[j])

C14_InjectiveRenaming ==
    (/\ IndexedAnnotated
     /\ FamilyOf(last.input[1]) = "pydantic"
     /\ NotInjective(IndexedConfig, ModelFields(IndexedWith.model)))
       => (last.status = "ImproperlyConfiguredException" /\ last.out = << >>)

(* C15: specializing with a field_mapping that has a key which is no field *)
(* of the model fails with ImproperlyConfiguredException at that moment.   *)
UnknownKey(cfg, mf) ==
    \E i \in 1..Len(cfg.field_mapping) : cfg.field_mapping[i].name \notin Names(mf)

C15_UnknownMappingKey ==
    (IndexedAnnotated /\ UnknownKey(IndexedConfig, ModelFields(IndexedWith.model)))
       => (last.status = "ImproperlyConfiguredException" /\ last.out = << >>)

(* C16: when a pydantic DTO class with exclude E1 and mapping M1 is        *)
(* specialized again for the same model with (E2, M2), E1 and M1 still     *)
(* apply to the child: in its TransferType, in its bound Configuration and *)
(* in its reverse mapping.                                                 *)
Respecialized ==
    {k \in Classes :
        /\ classes[k].parent # 0
        /\ classes[classes[k].parent].model = classes[k].model
        /\ FamilyOfClass(k) = "pydantic"}

(* the parent's renames of fields that the child neither excludes nor maps *)
InheritedRenames(k) ==
    LET up == GivenConfig(classes[k].parent)
        own == GivenConfig(k)
    IN {i \in 1..Len(up.field_mapping) :
           /\ up.field_mapping[i].name \in Names(ModelOf(k))
           /\ up.field_mapping[i].name \notin up.exclude \cup own.exclude
           /\ ~HasName(own.field_mapping, up.field_mapping[i].name)}

C16_Composition ==
    \A k \in Respecialized :
        LET up == GivenConfig(classes[k].parent)
        IN /\ \A x \in up.exclude : x \notin Names(TransferOf(k))
           /\ up.exclude \subseteq ConfigOf(classes[k].config).exclude
           /\ \A i \in InheritedRenames(k) :
                 /\ HasName(TransferOf(k), up.field_mapping[i].to)
                 /\ ~HasName(TransferOf(k), up.field_mapping[i].name)
                 /\ HasName(rfms[classes[k].rfm], up.field_mapping[i].to)

(* C17: indexing a factory with Annotated[model, ...] raises                *)
(* ImproperlyConfiguredException and makes no DTO class whenever the       *)
(* metadata is anything but exactly one Config (an object that is no       *)
(* Config, or more than one object); exactly one Config is accepted.       *)
C17_AnnotationValidation ==
    (last.op = "getitem" /\ HasPluginType(last.input[1]))
       => /\ IndexedWith.kind \in {"bad_metadata", "many_metadata"}
                => (last.status = "ImproperlyConfiguredException" /\ last.out = << >>)
          /\ (IndexedWith.kind = "annotated" /\ last.status # "none")
                => last.status = "returned"

(* C18: indexing a factory with a TypeVar returns that very factory,       *)
(* makes no class, calls no plugin and changes no Config, plugin map,      *)
(* TransferType or reverse mapping; a DTO class comes into being only by   *)
(* indexing with a model type.                                             *)
C18_TypeVarIdentity ==
    [][/\ (last'.op = "getitem" /\ last'.input[2] = TypeVarItem)
             => /\ last'.status = "returned"
                /\ last'.out = << last'.input[1] >>
                /\ UNCHANGED <<configs, plugins, tts, rfms, classes>>
       /\ classes' # classes
             => /\ last'.op = "getitem"
                /\ last'.input[2].kind \in {"model", "annotated"}
                /\ Len(classes') = Len(classes) + 1
                /\ SubSeq(classes', 1, Len(classes)) = classes]_vars

(* a DTO class that has a TransferType, a plugin instance with a map entry *)
(* and a reverse mapping was indexed with a TypeVar                        *)
C18_Witness ==
    /\ last.op = "getitem"
    /\ last.input[2] = TypeVarItem
    /\ IsClass(last.input[1])
    /\ plugins[classes[last.input[1].idx].plugin].cache # << >>
    /\ rfms[classes[last.input[1].idx].rfm] # << >>

(* C19: DataclassFactory, PydanticFactory and SQLAlchemyFactory, indexed   *)
(* with a model type and an empty Configuration, give a DTO class for that *)
(* model whose TransferType has exactly the model's fields, with their     *)
(* types, in declared order.                                               *)
ShippedFactories == {"DataclassFactory", "PydanticFactory", "SQLAlchemyFactory"}

C19_ShippedFactoriesSpecialize ==
    (/\ last.op = "getitem"
     /\ last.input[1].base \in ShippedFactories
     /\ last.input[1].idx = 0
     /\ \/ IndexedWith.kind = "model"
        \/ IndexedWith.kind = "annotated" /\ IndexedConfig = EmptyConfig)
       => /\ last.status = "returned"
          /\ last.cls \in Classes
          /\ classes[last.cls].model = IndexedWith.model
          /\ TransferOf(last.cls) = ModelFields(IndexedWith.model)

(* C20: with the pydantic adapter, when a field f is both in exclude and a *)
(* key of field_mapping, the TransferType has neither f nor the name f is  *)
(* mapped to, and to_model after from_buffer does not fail over the        *)
(* ignored mapping entry.                                                  *)
ExcludedAndMapped(k) ==
    {f \in GivenConfig(k).exclude :
        HasName(GivenConfig(k).field_mapping, f) /\ f \in Names(ModelOf(k))}

C20_ExcludeBeatsRename ==
    /\ \A k \in Classes : \A f \in ExcludedAndMapped(k) :
          FamilyOfClass(k) = "pydantic"
             => /\ ~HasName(TransferOf(k), f)
                /\ ~HasName(TransferOf(k), Entry(GivenConfig(k).field_mapping, f).to)
    /\ (/\ last.op = "to_model" /\ made.op = "from_buffer"
        /\ FamilyOfClass(dto.cls) = "pydantic"
        /\ ExcludedAndMapped(dto.cls) # {})
          => last.status # "KeyError"

(* C21: get_plugin_for_value returns the first plugin, in registration     *)
(* order, that supports the value with exactly one level of list, tuple or *)
(* generic-argument wrapping taken off, and None when the list of plugins  *)
(* is empty or no plugin supports it.                                      *)
UnwrappedOnce(value) ==
    IF value.shape \in Shapes /\ value.items # << >> THEN value.items[1] ELSE value

Accepting(value) ==
    {i \in 1..Len(plugins) : is_plugin_supported_type(plugins[i].family, value)}

C21_AdapterLookup ==
    last.op = "get_plugin_for_value"
       => LET acc == Accepting(UnwrappedOnce(last.input[1]))
          IN /\ last.status = "returned"
             /\ IF acc = {} THEN last.out = << 0 >>
                ELSE last.out[1] \in acc /\ \A j \in acc : last.out[1] <= j

(* C22: no specialization changes the exclude, field_mapping or fields of  *)
(* the Configuration it was given: every Configuration holds what its      *)
(* creator set, and a TransferType built under a reused Configuration has  *)
(* no field of another model.                                              *)
C22_ConfigurationImmutable ==
    /\ \A c \in ConfigIds : configs[c] = ConfigMenu[c]
    /\ \A k \in Classes :
          FamilyOfClass(k) \in {"pydantic", "sqlalchemy"}
             => \A n \in Names(TransferOf(k)) :
                   \/ n \in Names(GivenConfig(k).fields)
                   \/ \E i \in 1..Len(ModelOf(k)) : n = TransferName(GivenConfig(k), ModelOf(k)[i])

(* C23: from_buffer and array_from_buffer on data that does not conform to *)
(* the TransferType (a value of the wrong type, a required field missing)  *)
(* raise ValidationError and return no DTO instance; and every DTO         *)
(* instance that is returned wraps one transfer instance, which has every  *)
(* field of the TransferType with a value of the field's type.             *)
IsOfType(type, x) ==
    CASE type = "int" -> x.k = "int"
      [] type = "float" -> x.k = "float"
      [] type = "str" -> x.k \in {"str", "numstr", "fltstr"}
      [] OTHER -> FALSE

Conforms(fields, raw) ==
    \A i \in 1..Len(fields) :
        IF fields[i].name \in DOMAIN raw
        THEN Coerce(fields[i].type, raw[fields[i].name]) # Invalid
        ELSE fields[i].dflt # "required"

Satisfies(fields, ti) ==
    /\ DOMAIN ti = Names(fields)
    /\ \A n \in DOMAIN ti :
          IsOfType(Entry(fields, n).type, ti[n])
             \/ (ti[n] = None /\ Entry(fields, n).dflt # "required")

C23_NoPartialSuccess ==
    /\ (last.op = "from_buffer" /\ ~Conforms(TransferOf(last.cls), last.input[1]))
          => (last.status = "ValidationError" /\ dto = NoDTO)
    /\ (last.op = "array_from_buffer"
          /\ \E i \in 1..Len(last.input) : ~Conforms(TransferOf(last.cls), last.input[i]))
          => (last.status = "ValidationError" /\ dto = NoDTO /\ last.out = << >>)
    /\ dto # NoDTO => (dto.kind = "one" /\ Satisfies(TransferOf(dto.cls), dto.ti))

(* C24: to_model on a DTO whose values, after the reverse mapping, lack a  *)
(* field the model requires fails with ImproperlyConfiguredException and   *)
(* returns no model instance, in every model family.                       *)
HeldValues(d) == ReverseLoop(d.ti, rfms[classes[d.cls].rfm], 1)

LacksRequired(d) ==
    /\ d.kind = "one"
    /\ HeldValues(d).status = "ok"
    /\ \E i \in 1..Len(ModelOf(d.cls)) :
          /\ ModelOf(d.cls)[i].dflt = "required"
          /\ ModelOf(d.cls)[i].name \notin DOMAIN HeldValues(d).value

C24_MissingRequiredField ==
    (last.op = "to_model" /\ LacksRequired(dto))
       => (last.status = "ImproperlyConfiguredException" /\ last.out = << >>)

Remapped(k) ==
    {i \in 1..Len(GivenConfig(k).field_mapping) :
        /\ GivenConfig(k).field_mapping[i].name \in Names(ModelOf(k))
        /\ GivenConfig(k).field_mapping[i].name \notin GivenConfig(k).exclude}

C26_DefaultsSurviveRemap ==
    \A k \in Classes :
        (FamilyOfClass(k) \in {"pydantic", "sqlalchemy"} /\ ~NotInjective(GivenConfig(k), ModelOf(k)))
           => \A i \in Remapped(k) :
                 LET e == GivenConfig(k).field_mapping[i]
                 IN /\ HasName(TransferOf(k), e.to)
                    /\ Entry(TransferOf(k), e.to).dflt = Entry(ModelOf(k), e.name).dflt

(* C27: when every field_mapping names fields of its model, the reverse    *)
(* mapping of every pydantic DTO class, however many specializations led   *)
(* to it, is exactly the inverse of the field_mapping its TransferType was *)
(* built with: its keys are fields of the TransferType, its values fields  *)
(* of the model, and to_model never looks up a key the transfer instance   *)
(* does not have.                                                          *)
ReversePairs(k) ==
    LET rfm == rfms[classes[k].rfm]
    IN {<< rfm[i].name, rfm[i].orig >> : i \in 1..Len(rfm)}

InversePairs(field_mapping) ==
    {<< field_mapping[i].to, field_mapping[i].name >> : i \in 1..Len(field_mapping)}

(* every field_mapping in use names fields of the model it is applied to *)
KnownKeysOnly == \A j \in Classes : ~UnknownKey(GivenConfig(j), ModelOf(j))

C27_ReverseMappingInvariant ==
    /\ \A k \in Classes :
          (FamilyOfClass(k) = "pydantic" /\ KnownKeysOnly)
             => /\ ReversePairs(k) = InversePairs(GivenConfig(k).field_mapping)
                /\ \A pair \in ReversePairs(k) :
                      /\ pair[1] \in Names(TransferOf(k))
                      /\ pair[2] \in Names(ModelOf(k))
    /\ (last.op = "to_model" /\ FamilyOfClass(dto.cls) = "pydantic" /\ KnownKeysOnly)
          => last.status # "KeyError"

(* C28: for an injective field_mapping over the model's fields, swaps such *)
(* as a -> b, b -> a included, to_model of a pydantic DTO made from raw    *)
(* data gives a model instance in which every field holds the value the    *)
(* transfer instance has under that field's transfer name; no value is     *)
(* lost or overwritten.                                                    *)
Substitutes(cfg, mf) ==
    /\ cfg.exclude = {}
    /\ cfg.fields = << >>
    /\ cfg.field_mapping # << >>
    /\ ~UnknownKey(cfg, mf)
    /\ ~NotInjective(cfg, mf)

C28_SimultaneousSubstitution ==
    (/\ last.op = "to_model"
     /\ made.op = "from_buffer"
     /\ FamilyOfClass(dto.cls) = "pydantic"
     /\ Substitutes(GivenConfig(dto.cls), ModelOf(dto.cls)))
       => /\ last.status = "ok"
          /\ \A i \in 1..Len(ModelOf(dto.cls)) :
                LET f == ModelOf(dto.cls)[i]
                IN PyEq(last.out[1][f.name], dto.ti[TransferName(GivenConfig(dto.cls), f)])

(* C29: specializing a child from a DTO class leaves every existing DTO    *)
(* class as it was: its reverse mapping, its Configuration, its            *)
(* TransferType and its model type; so to_model on a DTO instance of an    *)
(* existing class gives after the step what it gave before.                *)
ParentsUnchanged ==
    \A k \in Classes :
        /\ classes'[k] = classes[k]
        /\ rfms'[classes[k].rfm] = rfms[classes[k].rfm]
        /\ tts'[classes[k].tt] = tts[classes[k].tt]
        /\ classes[k].config # 0 => configs'[classes[k].config] = configs[classes[k].config]

C29_ParentUnchanged ==
    [][(last'.op = "getitem" /\ classes' # classes) => ParentsUnchanged]_vars

(* C30: in every model family, from_model under a Configuration with       *)
(* exclude E gives a transfer instance that holds no field of E, and two   *)
(* model instances that differ only in fields of E give transfer           *)
(* instances with the same content.                                        *)
DifferOnlyIn(E, x, y) ==
    /\ DOMAIN x = DOMAIN y
    /\ \A n \in DOMAIN x \ E : x[n] = y[n]

C30_ExcludedFieldsDoNotFlow ==
    (last.op = "from_model" /\ last.status = "ok")
       => LET E == GivenConfig(last.cls).exclude
          IN /\ DOMAIN dto.ti \cap E = {}
             /\ \A y \in Instances(classes[last.cls].model) :
                   DifferOnlyIn(E, last.input[1], y)
                      => /\ from_model(last.cls, y).status = "ok"
                         /\ from_model(last.cls, y).value.ti = dto.ti

====
